---- MODULE Spec2Model ----
(***************************************************************************)
(* Model of op-export (src/src/main.rs): the concurrent fetch pipeline    *)
(* fetch_all_items (two worker threads running get_items, an id queue, a  *)
(* results channel, the collect() aggregation with its progress reporter, *)
(* the join loop) and the retry loop of ToolOp::get_item.                  *)
(***************************************************************************)
EXTENDS Integers, Sequences, FiniteSets, TLC

\* ------------------------------------------------------------------ bounds
\* longest listing a provider returns in the model
MaxLen == 3
\* the clock of a ProgressReporter run stops advancing past this time (ms)
MaxClock == 3000
\* the clock advances in steps of this many milliseconds
TickMs == 250
\* the random backoff time is drawn from the ends of its range and from the
\* multiples of this many milliseconds inside it
JitterStep == 1000

\* ------------------------------------------------------- program constants
\* `for _ in 0..2` : size of the worker pool
NumWorkers == 2
\* `if tries == 5`
MaxTries == 5
\* `gen_range(tries * 3000, (tries + 1) * 3000)`
BackoffBase == 3000
\* `Duration::from_millis(1000)`: the throttle of ProgressReporter::done
ReportIntervalMs == 1000

Workers == 1..NumWorkers

\* ids a provider may know (the ids of the repository's tests)
Ids == {"id1", "id2", "id3"}

\* behaviour of the provider's get_item for one id: it returns a body, it
\* returns an error, or it panics (unwinding the calling worker thread)
Behaviours == {"ok", "err", "panic"}

\* ------------------------------------------------------------------ values
\* anyhow::Result<T>; "None" stands for a value not computed yet
Ok(v) == [tag |-> "Ok", val |-> v]
Err(e) == [tag |-> "Err", val |-> e]
NoResult == [tag |-> "None", val |-> <<>>]

\* json!({"id": id}) : the body the mock provider of the tests holds for id
Json(id) == <<"json", id>>

\* Item { id, json }
Item(id, json) == [id |-> id, json |-> json]

\* anyhow!("mock error for id {}", id)
MockError(id) == [id |-> "mock error for id", json |-> <<"err", id>>]
\* the error of a failed list_items
ListError == [id |-> "list_items failed", json |-> <<"err", "">>]
\* anyhow!("thread died: {:?}", e)
ThreadDied == [id |-> "thread died", json |-> <<"err", "">>]

\* sequences over S of length at most n
RECURSIVE SeqsUpTo(_, _)
SeqsUpTo(S, n) ==
  IF n = 0 THEN {<<>>}
  ELSE LET shorter == SeqsUpTo(S, n - 1)
       IN shorter \cup {Append(s, x) : s \in shorter, x \in S}

Range(s) == {s[i] : i \in 1..Len(s)}
NoDup(s) == \A i, j \in 1..Len(s) : s[i] = s[j] => i = j

\* what one call of Op::list_items may return: the ids the provider holds,
\* or an error (the subprocess failed, its output did not parse)
ListOutcomes(l) == {Err(ListError), Ok(l)}

VARIABLES
  op,            \* the provider: behaviour of get_item per id
  listing,       \* the provider: the ids it lists
  mpc,           \* position of the thread running fetch_all_items
  item_ids,      \* result of the first list_items call
  queue_ids,     \* the Vec iterated by the enqueue loop
  enq_idx,       \* number of ids already sent on the id queue
  id_chan,       \* ids in the id channel
  item_chan,     \* results in the item channel
  num_pending,   \* ProgressReporter::num_pending
  collected,     \* the Vec collect() is building
  items,         \* the result of collect()
  join_idx,      \* index of the next thread handle to join
  result,        \* return value of fetch_all_items
  wpc,           \* position of each worker thread
  wid,           \* id a worker is fetching
  list_calls,    \* number of list_items calls made
  get_calls,     \* number of get_item calls made
  num_observed,  \* number of results collect() has pulled from the item channel
  close_queue,   \* the id channel as it was when item_receiver was dropped
  late,          \* per worker: get_item calls started after that drop
  rpc,           \* position inside ToolOp::get_item
  backoff,       \* ToolOp::backoff
  tries,         \* `tries` of ToolOp::get_item
  backoff_time,  \* `backoff_time` of ToolOp::get_item
  slept,         \* number of thread::sleep calls made by ToolOp::get_item
  attempts,      \* number of subprocess invocations made by ToolOp::get_item
  rresult,       \* return value of ToolOp::get_item
  script,        \* what the k-th run of the subprocess will do: "ok" or "fail"
  delays,        \* the backoff times computed so far, in order
  backed_off,    \* number of backoff steps completed (slept or only printed)
  clock,         \* the time, in milliseconds since ProgressReporter::new()
  last_report,   \* ProgressReporter::last_report
  reports,       \* the progress lines printed: <<time, count>> each
  last_done,     \* what the last done() call saw and did
  prev_result,   \* what an earlier fetch_all_items call on the provider returned
  output         \* the JSON array export writes to the destination file

pipe_vars == <<op, listing, mpc, item_ids, queue_ids, enq_idx, id_chan, item_chan,
               num_pending, collected, items, join_idx, result, wpc, wid,
               list_calls, get_calls, num_observed, close_queue, late>>
retry_vars == <<rpc, backoff, tries, backoff_time, slept, attempts, rresult,
                script, delays, backed_off>>
progress_vars == <<clock, last_report, reports, last_done>>
caller_vars == <<prev_result, output>>
vars == <<pipe_vars, retry_vars, progress_vars, caller_vars>>

\* positions of a thread that has ended: its loop ran to the end of the id
\* channel, it broke out of the loop on a failed send, or it panicked
EndedStates == {"exited", "broke", "dead"}

\* ------------------------------------------------- channel ends still alive
\* id_sender lives until drop(id_sender), or until fetch_all_items returns
IdSenderAlive == mpc \in {"spawn", "list1", "list2", "enqueue"}

\* item_receiver lives until collect() has consumed it, or until return
ItemReceiverAlive == mpc \in {"spawn", "list1", "list2", "enqueue", "collect"}

\* fetch_all_items without its drop(item_sender): the sender lives to the return
ItemSendersNotDropped ==
  (mpc # "returned") \/ (\E w \in Workers : wpc[w] \in {"recv", "call"})

\* a worker owns its sender clone while it is inside get_items;
\* fetch_all_items owns item_sender until drop(item_sender)
ItemSendersAlive ==
  (mpc = "spawn") \/ (\E w \in Workers : wpc[w] \in {"recv", "call"})

\* JoinHandle::join returns once the thread has finished
ThreadFinished(w) == wpc[w] \in EndedStates

\* ------------------------------------------------------------ the provider
\* MockOp::get_item
GetItem(o, id) == IF o[id] = "ok" THEN Ok(Json(id)) ELSE Err(MockError(id))

\* a map that also replaces the provider's error by one without its cause
FetchResultLosesError(id, r) ==
  IF r.tag = "Ok" THEN Ok(Item(id, r.val)) ELSE Err(MockError(""))

\* `.map(|json| Item { id, json })`
FetchResult(id, r) == IF r.tag = "Ok" THEN Ok(Item(id, r.val)) ELSE r

\* ---------------------------------------------------------- retry loop idle
RetryIdle ==
  /\ rpc = "idle"
  /\ backoff = TRUE
  /\ tries = 0
  /\ backoff_time = 0
  /\ slept = 0
  /\ attempts = 0
  /\ rresult = NoResult
  /\ script = [k \in 1..MaxTries |-> "ok"]
  /\ delays = <<>>
  /\ backed_off = 0

\* no ProgressReporter is studied on its own
ProgressIdle ==
  /\ clock = 0
  /\ last_report = 0
  /\ reports = <<>>
  /\ last_done = [called |-> FALSE, elapsed |-> 0, count |-> 0, emitted |-> FALSE]

\* fetch_all_items has not been called before and export has written nothing
CallerInit ==
  /\ prev_result = NoResult
  /\ output = NoResult

\* ------------------------------------------------------------------- Init
PipeInit ==
  /\ op \in [Ids -> Behaviours]
  /\ listing \in SeqsUpTo(Ids, MaxLen)
  /\ mpc = "spawn"
  /\ item_ids = <<>>
  /\ queue_ids = <<>>
  /\ enq_idx = 0
  /\ id_chan = <<>>
  /\ item_chan = <<>>
  /\ num_pending = 0
  /\ collected = <<>>
  /\ items = NoResult
  /\ join_idx = 1
  /\ result = NoResult
  /\ wpc = [w \in Workers |-> "unspawned"]
  /\ wid = [w \in Workers |-> ""]
  /\ list_calls = 0
  /\ get_calls = 0
  /\ num_observed = 0
  /\ close_queue = <<>>
  /\ late = [w \in Workers |-> 0]

Init == PipeInit /\ RetryIdle /\ ProgressIdle /\ CallerInit

\* ------------------------------------------------------- ProgressReporter
\* a pending() that counts every id twice
PendingTwice(n) == n + 2

\* ProgressReporter::pending: `self.num_pending += 1`
Pending(n) == n + 1

\* a done() that forgets the decrement
DoneNoDecrement(n) == n

\* ProgressReporter::done: `self.num_pending -= 1`
Done(n) == n - 1

\* --------------------------------------------------------- fetch_all_items
\* spawn the worker threads, then drop(item_sender)
Spawn ==
  /\ mpc = "spawn"
  /\ wpc' = [w \in Workers |-> "recv"]
  /\ mpc' = "list1"
  /\ UNCHANGED <<op, listing, item_ids, queue_ids, enq_idx, id_chan, item_chan,
                 num_pending, collected, items, join_idx, result, wid,
                 list_calls, get_calls>>
  /\ UNCHANGED <<num_observed, close_queue, late>>

\* `let item_ids = op.list_items()?;`
List1 ==
  /\ mpc = "list1"
  /\ list_calls' = list_calls + 1
  /\ \E r \in ListOutcomes(listing) :
       IF r.tag = "Err"
       THEN /\ result' = r
            /\ mpc' = "returned"
            /\ UNCHANGED item_ids
       ELSE /\ item_ids' = r.val
            /\ mpc' = "list2"
            /\ UNCHANGED result
  /\ UNCHANGED <<op, listing, queue_ids, enq_idx, id_chan, item_chan, num_pending,
                 collected, items, join_idx, wpc, wid, get_calls>>
  /\ UNCHANGED <<num_observed, close_queue, late>>

\* `ProgressReporter::new()` and `for id in op.list_items()?`
List2 ==
  /\ mpc = "list2"
  /\ list_calls' = list_calls + 1
  /\ \E r \in ListOutcomes(listing) :
       IF r.tag = "Err"
       THEN /\ result' = r
            /\ mpc' = "returned"
            /\ UNCHANGED queue_ids
       ELSE /\ queue_ids' = r.val
            /\ mpc' = "enqueue"
            /\ UNCHANGED result
  /\ num_pending' = 0
  /\ UNCHANGED <<op, listing, item_ids, enq_idx, id_chan, item_chan, collected, items,
                 join_idx, wpc, wid, get_calls>>
  /\ UNCHANGED <<num_observed, close_queue, late>>

\* one iteration of the enqueue loop: progress.pending(); id_sender.send(id)?
Enqueue ==
  /\ mpc = "enqueue"
  /\ enq_idx < Len(queue_ids)
  /\ num_pending' = Pending(num_pending)
  /\ id_chan' = Append(id_chan, queue_ids[enq_idx + 1])
  /\ enq_idx' = enq_idx + 1
  /\ UNCHANGED <<op, listing, mpc, item_ids, queue_ids, item_chan, collected, items,
                 join_idx, result, wpc, wid, list_calls, get_calls>>
  /\ UNCHANGED <<num_observed, close_queue, late>>

\* drop(id_sender)
CloseQueue ==
  /\ mpc = "enqueue"
  /\ enq_idx = Len(queue_ids)
  /\ mpc' = "collect"
  /\ UNCHANGED <<op, listing, item_ids, queue_ids, enq_idx, id_chan, item_chan,
                 num_pending, collected, items, join_idx, result, wpc, wid,
                 list_calls, get_calls>>
  /\ UNCHANGED <<num_observed, close_queue, late>>

\* an aggregation that never stops on an error
ShortCircuitsNever(r) == FALSE

\* collect() into anyhow::Result<Vec<Item>> stops at the first Err
ShortCircuits(r) == r.tag = "Err"

\* a collect() that keeps only the item it saw last
PushKeepLast(acc, r) == <<r.val>>

\* collect() pushes an Ok item onto the Vec it builds
Push(acc, r) == Append(acc, r.val)

\* one result pulled by collect(): progress.done(), then push or stop
CollectOne ==
  /\ mpc = "collect"
  /\ item_chan # <<>>
  /\ num_pending' = Done(num_pending)
  /\ num_observed' = num_observed + 1
  /\ LET r == Head(item_chan) IN
       IF ShortCircuits(r)
       THEN /\ items' = r
            /\ collected' = <<>>
            /\ item_chan' = <<>>
            /\ close_queue' = id_chan
            /\ mpc' = "join"
       ELSE /\ collected' = Push(collected, r)
            /\ item_chan' = Tail(item_chan)
            /\ UNCHANGED <<items, mpc, close_queue>>
  /\ UNCHANGED <<op, listing, item_ids, queue_ids, enq_idx, id_chan, join_idx, result,
                 wpc, wid, list_calls, get_calls>>
  /\ UNCHANGED <<late>>

\* the item channel is empty and disconnected: collect() ends with Ok(vec)
CollectEnd ==
  /\ mpc = "collect"
  /\ item_chan = <<>>
  /\ ~ItemSendersAlive
  /\ items' = Ok(collected)
  /\ mpc' = "join"
  /\ UNCHANGED <<op, listing, item_ids, queue_ids, enq_idx, id_chan, item_chan,
                 num_pending, collected, join_idx, result, wpc, wid,
                 list_calls, get_calls>>
  /\ UNCHANGED <<num_observed, close_queue, late>>

\* a join loop that ignores the outcome of join()
JoinFailedIgnored(w) == FALSE

\* the outcome of one thread.join(): Err when the thread panicked
JoinFailed(w) == wpc[w] = "dead"

\* a join loop that returns after the first handle it joined
JoinOnlyFirst ==
  /\ mpc = "join"
  /\ join_idx <= NumWorkers
  /\ ThreadFinished(join_idx)
  /\ join_idx' = join_idx + 1
  /\ result' = IF JoinFailed(join_idx) THEN Err(ThreadDied) ELSE items
  /\ mpc' = "returned"
  /\ UNCHANGED <<op, listing, item_ids, queue_ids, enq_idx, id_chan, item_chan,
                 num_pending, collected, items, wpc, wid, list_calls,
                 get_calls>>
  /\ UNCHANGED <<num_observed, close_queue, late>>

\* a join loop that prefers the data error of collect() to the pool error
JoinDataErrorFirst ==
  /\ mpc = "join"
  /\ join_idx <= NumWorkers
  /\ ThreadFinished(join_idx)
  /\ join_idx' = join_idx + 1
  /\ IF JoinFailed(join_idx)
     THEN /\ result' = IF items.tag = "Err" THEN items ELSE Err(ThreadDied)
          /\ mpc' = "returned"
     ELSE UNCHANGED <<result, mpc>>
  /\ UNCHANGED <<op, listing, item_ids, queue_ids, enq_idx, id_chan, item_chan,
                 num_pending, collected, items, wpc, wid, list_calls,
                 get_calls>>
  /\ UNCHANGED <<num_observed, close_queue, late>>

\* `for thread in bgthreads { match thread.join() ... }`
Join ==
  /\ mpc = "join"
  /\ join_idx <= NumWorkers
  /\ ThreadFinished(join_idx)
  /\ join_idx' = join_idx + 1
  /\ IF JoinFailed(join_idx)
     THEN /\ result' = Err(ThreadDied)
          /\ mpc' = "returned"
     ELSE UNCHANGED <<result, mpc>>
  /\ UNCHANGED <<op, listing, item_ids, queue_ids, enq_idx, id_chan, item_chan,
                 num_pending, collected, items, wpc, wid, list_calls,
                 get_calls>>
  /\ UNCHANGED <<num_observed, close_queue, late>>

\* the trailing `items` expression
Return ==
  /\ mpc = "join"
  /\ join_idx > NumWorkers
  /\ result' = items
  /\ mpc' = "returned"
  /\ UNCHANGED <<op, listing, item_ids, queue_ids, enq_idx, id_chan, item_chan,
                 num_pending, collected, items, join_idx, wpc, wid,
                 list_calls, get_calls>>
  /\ UNCHANGED <<num_observed, close_queue, late>>

\* ---------------------------------------------------------------- get_items
\* a receive that reads the next id without taking it off the channel
WorkerRecvPeek(w) ==
  /\ wpc[w] = "recv"
  /\ id_chan # <<>>
  /\ wid' = [wid EXCEPT ![w] = Head(id_chan)]
  /\ wpc' = [wpc EXCEPT ![w] = "call"]
  /\ get_calls' = get_calls + 1
  /\ late' = [late EXCEPT ![w] = IF ItemReceiverAlive THEN @ ELSE @ + 1]
  /\ UNCHANGED <<op, listing, mpc, item_ids, queue_ids, enq_idx, id_chan, item_chan,
                 num_pending, collected, items, join_idx, result, list_calls>>
  /\ UNCHANGED <<num_observed, close_queue>>

\* `for id in r`: the next id is received and op.get_item(&id) is called
WorkerRecv(w) ==
  /\ wpc[w] = "recv"
  /\ id_chan # <<>>
  /\ wid' = [wid EXCEPT ![w] = Head(id_chan)]
  /\ id_chan' = Tail(id_chan)
  /\ wpc' = [wpc EXCEPT ![w] = "call"]
  /\ get_calls' = get_calls + 1
  /\ late' = [late EXCEPT ![w] = IF ItemReceiverAlive THEN @ ELSE @ + 1]
  /\ UNCHANGED <<op, listing, mpc, item_ids, queue_ids, enq_idx, item_chan,
                 num_pending, collected, items, join_idx, result, list_calls>>
  /\ UNCHANGED <<num_observed, close_queue>>

\* `for id in r` ends: the id channel is empty and its sender dropped
WorkerExit(w) ==
  /\ wpc[w] = "recv"
  /\ id_chan = <<>>
  /\ ~IdSenderAlive
  /\ wpc' = [wpc EXCEPT ![w] = "exited"]
  /\ UNCHANGED <<op, listing, mpc, item_ids, queue_ids, enq_idx, id_chan, item_chan,
                 num_pending, collected, items, join_idx, result, wid,
                 list_calls, get_calls>>
  /\ UNCHANGED <<num_observed, close_queue, late>>

\* a loop that goes on to the next id when its send failed
WorkerSendIgnoresFailure(w) ==
  /\ wpc[w] = "call"
  /\ op[wid[w]] # "panic"
  /\ item_chan' = IF ItemReceiverAlive
                  THEN Append(item_chan, FetchResult(wid[w], GetItem(op, wid[w])))
                  ELSE item_chan
  /\ wpc' = [wpc EXCEPT ![w] = "recv"]
  /\ UNCHANGED <<op, listing, mpc, item_ids, queue_ids, enq_idx, id_chan, num_pending,
                 collected, items, join_idx, result, wid, list_calls,
                 get_calls>>
  /\ UNCHANGED <<num_observed, close_queue, late>>

\* op.get_item returns and its result is sent; a failed send breaks the loop
WorkerSend(w) ==
  /\ wpc[w] = "call"
  /\ op[wid[w]] # "panic"
  /\ IF ItemReceiverAlive
     THEN /\ item_chan' = Append(item_chan, FetchResult(wid[w], GetItem(op, wid[w])))
          /\ wpc' = [wpc EXCEPT ![w] = "recv"]
     ELSE /\ wpc' = [wpc EXCEPT ![w] = "broke"]
          /\ UNCHANGED item_chan
  /\ UNCHANGED <<op, listing, mpc, item_ids, queue_ids, enq_idx, id_chan, num_pending,
                 collected, items, join_idx, result, wid, list_calls,
                 get_calls>>
  /\ UNCHANGED <<num_observed, close_queue, late>>

\* op.get_item panics: the worker thread unwinds and dies
WorkerPanic(w) ==
  /\ wpc[w] = "call"
  /\ op[wid[w]] = "panic"
  /\ wpc' = [wpc EXCEPT ![w] = "dead"]
  /\ UNCHANGED <<op, listing, mpc, item_ids, queue_ids, enq_idx, id_chan, item_chan,
                 num_pending, collected, items, join_idx, result, wid,
                 list_calls, get_calls>>
  /\ UNCHANGED <<num_observed, close_queue, late>>

MainNext ==
  \/ Spawn
  \/ List1
  \/ List2
  \/ Enqueue
  \/ CloseQueue
  \/ CollectOne
  \/ CollectEnd
  \/ Join
  \/ Return

WorkerNext(w) ==
  \/ WorkerRecv(w)
  \/ WorkerExit(w)
  \/ WorkerSend(w)
  \/ WorkerPanic(w)

\* the thread running fetch_all_items
Main == MainNext /\ UNCHANGED <<retry_vars, progress_vars, caller_vars>>

\* one worker thread running get_items
Worker(w) == WorkerNext(w) /\ UNCHANGED <<retry_vars, progress_vars, caller_vars>>

Next ==
  \/ Main
  \/ \E w \in Workers : Worker(w)

Spec == Init /\ [][Next]_vars

\* every thread that can take a step eventually takes one: the operating
\* system schedules the threads, and every provider call returns or panics
Fairness == WF_vars(Main) /\ \A w \in Workers : WF_vars(Worker(w))

FairSpec == Spec /\ Fairness

\* --------------------------------------------------------- ToolOp::get_item
\* the pipeline is not running while one get_item call is studied
PipeIdle ==
  /\ op = [id \in Ids |-> "ok"]
  /\ listing = <<>>
  /\ mpc = "idle"
  /\ item_ids = <<>>
  /\ queue_ids = <<>>
  /\ enq_idx = 0
  /\ id_chan = <<>>
  /\ item_chan = <<>>
  /\ num_pending = 0
  /\ collected = <<>>
  /\ items = NoResult
  /\ join_idx = 1
  /\ result = NoResult
  /\ wpc = [w \in Workers |-> "unspawned"]
  /\ wid = [w \in Workers |-> ""]
  /\ list_calls = 0
  /\ get_calls = 0
  /\ num_observed = 0
  /\ close_queue = <<>>
  /\ late = [w \in Workers |-> 0]

\* a ToolOp built by new (backoff) or new_without_backoff, entering get_item
RetryInit ==
  /\ rpc = "try"
  /\ backoff \in BOOLEAN
  /\ tries = 0
  /\ backoff_time = 0
  /\ slept = 0
  /\ attempts = 0
  /\ rresult = NoResult
  /\ script \in [1..MaxTries -> {"ok", "fail"}]
  /\ delays = <<>>
  /\ backed_off = 0

\* what the k-th run of the subprocess printed, parsed as JSON
CmdJson(k) == <<"json", k>>
\* the error of the k-th run of the subprocess (exit status, parse error)
CmdError(k) == <<"cmd error", k>>

\* an off-by-one in the give-up test
GiveUpLate(t) == t = MaxTries + 1

\* `if tries == 5 { return Err(e); }`
GiveUp(t) == t = MaxTries

\* the range drawn from with its upper end included
BackoffRangeInclusive(t) == (t * BackoffBase)..((t + 1) * BackoffBase)

\* `gen_range(tries * 3000, (tries + 1) * 3000)`: low inclusive, high exclusive
BackoffRange(t) == (t * BackoffBase)..((t + 1) * BackoffBase - 1)

\* the values of a range of backoff times that the model draws
Samples(S) ==
  {x \in S : \/ x % JitterStep = 0
             \/ x - 1 \notin S
             \/ x + 1 \notin S}

\* the k-th run of the subprocess, `check_output` then `parsed_as_json`
Outcome(k) == IF k \in DOMAIN script THEN script[k] ELSE "fail"

\* the error returned with a context added to it
GiveUpReturnContext(e) == Err(<<"context", e>>)

\* `return Err(e);`
GiveUpReturn(e) == Err(e)

\* one iteration of the loop: tries += 1, the subprocess runs, the match
RetryAttempt ==
  /\ rpc = "try"
  /\ tries' = tries + 1
  /\ attempts' = attempts + 1
  /\ IF Outcome(attempts') = "ok"
     THEN /\ rresult' = Ok(CmdJson(attempts'))
          /\ rpc' = "done"
          /\ UNCHANGED <<backoff_time, delays>>
     ELSE IF GiveUp(tries')
          THEN /\ rresult' = GiveUpReturn(CmdError(attempts'))
               /\ rpc' = "done"
               /\ UNCHANGED <<backoff_time, delays>>
          ELSE /\ \E t \in Samples(BackoffRange(tries')) :
                    /\ backoff_time' = t
                    /\ delays' = Append(delays, t)
               /\ rpc' = "backoff"
               /\ UNCHANGED rresult
  /\ UNCHANGED <<backoff, slept, script, backed_off>>

\* a disabled backoff taken as "do not retry"
RetryBackoffDisabledStops ==
  /\ rpc = "backoff"
  /\ slept' = IF backoff THEN slept + 1 ELSE slept
  /\ backoff_time' = 0
  /\ backed_off' = backed_off + 1
  /\ rpc' = IF backoff THEN "try" ELSE "done"
  /\ rresult' = IF backoff THEN rresult ELSE Err(CmdError(attempts))
  /\ UNCHANGED <<backoff, tries, attempts, script, delays>>

\* `if self.backoff { println!(...); sleep(backoff_time) } else { println!(...) }`
RetryBackoff ==
  /\ rpc = "backoff"
  /\ slept' = IF backoff THEN slept + 1 ELSE slept
  /\ backoff_time' = 0
  /\ backed_off' = backed_off + 1
  /\ rpc' = "try"
  /\ UNCHANGED <<backoff, tries, attempts, rresult, script, delays>>

RetryNext ==
  \/ RetryAttempt /\ UNCHANGED <<pipe_vars, progress_vars, caller_vars>>
  \/ RetryBackoff /\ UNCHANGED <<pipe_vars, progress_vars, caller_vars>>

InitRetry == PipeIdle /\ RetryInit /\ ProgressIdle /\ CallerInit

SpecRetry == InitRetry /\ [][RetryNext]_vars

\* ------------------------------------------- ProgressReporter on its own
\* every pipeline variable but the reporter's counter
pipe_rest == <<op, listing, mpc, item_ids, queue_ids, enq_idx, id_chan, item_chan,
               collected, items, join_idx, result, wpc, wid, list_calls,
               get_calls, num_observed, close_queue, late>>

\* ProgressReporter::new(): last_report = Instant::now(), num_pending = 0
ProgressNew ==
  /\ clock = 0
  /\ last_report = clock
  /\ reports = <<>>
  /\ last_done = [called |-> FALSE, elapsed |-> 0, count |-> 0, emitted |-> FALSE]

\* the throttle taken as "a second or more"
ShouldReportAtLeast(n, elapsed) == n > 0 /\ elapsed >= ReportIntervalMs

\* `if self.num_pending > 0 { ... if now.duration_since(self.last_report) >
\* Duration::from_millis(1000)`
ShouldReport(n, elapsed) == n > 0 /\ elapsed > ReportIntervalMs

\* time passes
Tick ==
  /\ clock < MaxClock
  /\ clock' = clock + TickMs
  /\ UNCHANGED <<num_pending, last_report, reports, last_done>>

\* pending()
ProgressPending ==
  /\ num_pending < MaxLen
  /\ num_pending' = Pending(num_pending)
  /\ UNCHANGED progress_vars

\* done(); the caller has a pending item (num_pending is a usize)
ProgressDone ==
  /\ num_pending > 0
  /\ LET n == Done(num_pending)
         elapsed == clock - last_report
         emit == ShouldReport(n, elapsed)
     IN /\ num_pending' = n
        /\ last_report' = IF emit THEN clock ELSE last_report
        /\ reports' = IF emit THEN Append(reports, <<clock, n>>) ELSE reports
        /\ last_done' = [called |-> TRUE, elapsed |-> elapsed, count |-> n,
                         emitted |-> emit]
  /\ UNCHANGED clock

ProgressNext ==
  \/ Tick /\ UNCHANGED <<pipe_rest, retry_vars, caller_vars>>
  \/ ProgressPending /\ UNCHANGED <<pipe_rest, retry_vars, caller_vars>>
  \/ ProgressDone /\ UNCHANGED <<pipe_rest, retry_vars, caller_vars>>

InitProgress == PipeIdle /\ RetryIdle /\ ProgressNew /\ CallerInit

SpecProgress == InitProgress /\ [][ProgressNext]_vars

\* ------------------------------------------------------------------ export
\* id_of_item: the string under "id" of the payload
IdOfItem(json) == json[2]

\* the order of String on the ids
IdRank(id) == CASE id = "id1" -> 1 [] id = "id2" -> 2 [] id = "id3" -> 3

\* the sort key of sort_by_key in export
SortKey(item) == IdRank(IdOfItem(item.json))

RECURSIVE Insert(_, _)
\* x put into the sorted t, after the elements whose key is not greater
Insert(t, x) ==
  IF t = <<>>
  THEN <<x>>
  ELSE IF SortKey(t[Len(t)]) <= SortKey(x)
       THEN Append(t, x)
       ELSE Append(Insert(SubSeq(t, 1, Len(t) - 1), x), t[Len(t)])

\* the items written in the order they were collected
SortByKeyUnsorted(v) == v

RECURSIVE SortByKey(_)
\* `items.sort_by_key(|item| id_of_item(&item.json).unwrap())`: a stable sort
SortByKey(v) ==
  IF v = <<>>
  THEN <<>>
  ELSE Insert(SortByKey(SubSeq(v, 1, Len(v) - 1)), v[Len(v)])

\* export after fetch_all_items returned Ok: sort, keep the payloads, write
Export ==
  /\ mpc = "returned"
  /\ result.tag = "Ok"
  /\ output.tag = "None"
  /\ LET sorted == SortByKey(result.val)
     IN output' = Ok([k \in 1..Len(sorted) |-> sorted[k].json])
  /\ UNCHANGED <<pipe_vars, retry_vars, progress_vars, prev_result>>

NextExport ==
  \/ Next
  \/ Export

SpecExport == Init /\ [][NextExport]_vars

\* ------------------------------------------- fetch_all_items called again
\* a second call that finds the queue position of the first
RerunQueueConsumed ==
  /\ mpc = "returned"
  /\ prev_result.tag = "None"
  /\ prev_result' = result
  /\ mpc' = "spawn"
  /\ item_ids' = <<>>
  /\ queue_ids' = <<>>
  /\ id_chan' = <<>>
  /\ item_chan' = <<>>
  /\ num_pending' = 0
  /\ collected' = <<>>
  /\ items' = NoResult
  /\ join_idx' = 1
  /\ result' = NoResult
  /\ wpc' = [w \in Workers |-> "unspawned"]
  /\ wid' = [w \in Workers |-> ""]
  /\ list_calls' = 0
  /\ get_calls' = 0
  /\ num_observed' = 0
  /\ close_queue' = <<>>
  /\ late' = [w \in Workers |-> 0]
  /\ UNCHANGED <<op, listing, enq_idx, output, retry_vars, progress_vars>>

\* fetch_all_items called a second time on the same provider once the first
\* call has returned: channels, threads, reporter and vectors are locals of
\* the call and are created anew; threads left over from the first call hold
\* only the first call's channels
Rerun ==
  /\ mpc = "returned"
  /\ prev_result.tag = "None"
  /\ prev_result' = result
  /\ mpc' = "spawn"
  /\ item_ids' = <<>>
  /\ queue_ids' = <<>>
  /\ enq_idx' = 0
  /\ id_chan' = <<>>
  /\ item_chan' = <<>>
  /\ num_pending' = 0
  /\ collected' = <<>>
  /\ items' = NoResult
  /\ join_idx' = 1
  /\ result' = NoResult
  /\ wpc' = [w \in Workers |-> "unspawned"]
  /\ wid' = [w \in Workers |-> ""]
  /\ list_calls' = 0
  /\ get_calls' = 0
  /\ num_observed' = 0
  /\ close_queue' = <<>>
  /\ late' = [w \in Workers |-> 0]
  /\ UNCHANGED <<op, listing, output, retry_vars, progress_vars>>

NextTwice ==
  \/ Next
  \/ Rerun

SpecTwice == Init /\ [][NextTwice]_vars

\* ------------------------------------------------------------------ checks
TypeOK ==
  /\ mpc \in {"spawn", "list1", "list2", "enqueue", "collect", "join", "returned"}
  /\ \A w \in Workers : wpc[w] \in {"unspawned", "recv", "call"} \cup EndedStates
  /\ num_pending \in 0..MaxLen
  /\ enq_idx \in 0..MaxLen
  /\ join_idx \in 1..(NumWorkers + 1)

\* collect() has run (both listings succeeded and the queue was closed)
Drained == items.tag # "None"

\* fetch_all_items has returned
Returned == mpc = "returned"

\* ids of the listing whose get_item does not return a body
BadIds == {id \in Range(listing) : op[id] # "ok"}

\* number of items of the returned Vec that carry the given id
Occurrences(v, id) == Cardinality({k \in 1..Len(v) : v[k].id = id})

\* C1: when every listed id is distinct and every get_item succeeds,
\* fetch_all_items returns Ok with exactly one Item per listed id, carrying
\* that id and the body the provider returned for it, in every interleaving
\* of the workers.
C1_AllSucceed ==
  (Returned /\ Drained /\ NoDup(listing) /\ BadIds = {})
    => /\ result.tag = "Ok"
       /\ Len(result.val) = Len(listing)
       /\ \A id \in Range(listing) : Occurrences(result.val, id) = 1
       /\ \A k \in 1..Len(result.val) :
            result.val[k] = Item(result.val[k].id, Json(result.val[k].id))

\* three distinct ids all fetched, returned in an order other than the listing's
C1_Witness ==
  /\ Returned
  /\ result.tag = "Ok"
  /\ NoDup(listing)
  /\ Len(listing) = 3
  /\ Len(result.val) = 3
  /\ result.val[1].id # listing[1]

\* C2: when exactly one listed id's get_item fails and every other listed id
\* succeeds, fetch_all_items returns Err with exactly that id's error, never
\* Ok and never another error, wherever the id sits in the queue.
C2_OneFailure ==
  (Returned /\ Drained /\ Cardinality(BadIds) = 1 /\ \A id \in BadIds : op[id] = "err")
    => /\ result.tag = "Err"
       /\ \A id \in BadIds : result.val = MockError(id)

\* the failing id is the last of three listed ids and its error is returned
C2_Witness ==
  /\ Returned
  /\ Len(listing) = 3
  /\ NoDup(listing)
  /\ BadIds = {listing[3]}
  /\ op[listing[3]] = "err"
  /\ result.tag = "Err"
  /\ result.val = MockError(listing[3])

\* C3 as stated: whenever the aggregation stopped on an error, that error is
\* what fetch_all_items returns.
C3_FirstErrorReturned ==
  (Returned /\ items.tag = "Err") => result = items

\* what fetch_all_items returns after the aggregation stopped on an error
C3_Outcome ==
  (Returned /\ items.tag = "Err")
    => IF \E w \in Workers : wpc[w] = "dead"
       THEN result = Err(ThreadDied)
       ELSE result = items

\* C3 (amended): the aggregation consumes results in channel order; the first
\* Err it receives becomes its outcome and it consumes nothing after it; that
\* single error, with no partial items, is what fetch_all_items returns,
\* unless a worker thread died, and then the pool error is returned.
C3_FailFast ==
  [][ /\ (mpc = "collect" /\ num_pending' # num_pending)
           => /\ item_chan # <<>>
              /\ Head(item_chan).tag = "Err"
                   => (items' = Head(item_chan) /\ mpc' = "join")
              /\ Head(item_chan).tag = "Ok"
                   => (collected' = Append(collected, Head(item_chan).val)
                        /\ items' = items)
      /\ items.tag = "Err"
           => (items' = items /\ num_pending' = num_pending /\ collected' = <<>>)
      /\ C3_Outcome' ]_vars

\* two listed ids fail and the error returned is the second one's: its result
\* reached the channel first
C3_Witness ==
  /\ Returned
  /\ Len(listing) >= 2
  /\ listing[1] # listing[2]
  /\ op[listing[1]] = "err"
  /\ op[listing[2]] = "err"
  /\ result.tag = "Err"
  /\ result.val = MockError(listing[2])

\* C4: under fair scheduling fetch_all_items eventually returns and every
\* worker thread eventually ends, whether the aggregation ran to the end,
\* stopped on an error, or never started.
C4_Terminates ==
  <>(Returned /\ \A w \in Workers : wpc[w] \in EndedStates)

\* the aggregation stopped on an error, a worker left its loop on a failed
\* send, and fetch_all_items returned with every worker ended
C4_Witness ==
  /\ Returned
  /\ items.tag = "Err"
  /\ \E w \in Workers : wpc[w] = "broke"
  /\ \A w \in Workers : wpc[w] \in EndedStates

\* C5: for an empty listing no get_item call is ever made, and
\* fetch_all_items returns Ok with an empty Vec after both workers have
\* ended and been joined.
C5_EmptyListing ==
  /\ listing = <<>> => get_calls = 0
  /\ (Returned /\ Drained /\ listing = <<>>)
       => /\ result.tag = "Ok"
          /\ result.val = <<>>
          /\ join_idx = NumWorkers + 1
          /\ \A w \in Workers : wpc[w] = "exited"

\* the run over an empty listing has returned Ok
C5_Witness ==
  /\ Returned
  /\ listing = <<>>
  /\ result.tag = "Ok"
  /\ get_calls = 0

\* C6: one get_item call of the retrying provider runs the subprocess at
\* most 5 times, and when it returns an error it has run it exactly 5 times.
C6_RetryBound ==
  /\ attempts <= 5
  /\ (rpc = "done" /\ rresult.tag = "Err") => attempts = 5

\* every attempt failed and the error was returned after the fifth
C6_Witness ==
  /\ rpc = "done"
  /\ rresult.tag = "Err"
  /\ attempts = 5

\* C7: in one run, from the enqueue loop on, list_items has been called
\* exactly once, and the ids of the enqueue loop are the ids that call returned.
C7_ListedOnce ==
  (mpc \in {"enqueue", "collect", "join"} \/ (Returned /\ Drained))
    => (list_calls = 1 /\ queue_ids = item_ids)

\* C8: when list_items fails, fetch_all_items returns the listing error, no
\* id was enqueued, no get_item call was made, and every worker thread has
\* ended (been joined) by the time it returns.
C8_ListFailure ==
  (Returned /\ result.tag = "Err" /\ result.val = ListError)
    => /\ enq_idx = 0
       /\ get_calls = 0
       /\ \A w \in Workers : wpc[w] \in EndedStates

\* C9: when a worker thread died, fetch_all_items returns the pool error
\* 'thread died', never Ok and never a data error.
C9_PoolError ==
  (Returned /\ \E w \in Workers : wpc[w] = "dead")
    => (result.tag = "Err" /\ result.val = ThreadDied)

\* a worker died although every result the aggregation received was an item
C9_Witness ==
  /\ Returned
  /\ \E w \in Workers : wpc[w] = "dead"
  /\ items.tag = "Ok"
  /\ Len(items.val) >= 1
  /\ result.tag = "Err"
  /\ result.val = ThreadDied

\* C10: once the aggregation has ended, fetch_all_items returns only after
\* every worker thread has ended: none is still running when it returns.
C10_AllJoined ==
  (Returned /\ Drained) => \A w \in Workers : wpc[w] \in EndedStates

\* C11: the progress counter always equals the number of ids enqueued so
\* far minus the number of results the aggregation has pulled so far, it is
\* never negative, and once every id is enqueued it is 0 exactly when every
\* enqueued id has had its result pulled.
C11_PendingCount ==
  /\ num_pending = enq_idx - num_observed
  /\ num_pending >= 0
  /\ mpc \in {"collect", "join", "returned"}
       => (num_pending = 0 <=> num_observed = Len(queue_ids))
  /\ (Returned /\ result.tag = "Ok") => num_pending = 0

\* three ids were enqueued, three results pulled, and the counter is back at 0
C11_Witness ==
  /\ enq_idx = 3
  /\ num_observed = 3
  /\ num_pending = 0

\* number of entries of a sequence of ids that are the given id
CountIn(seq, id) == Cardinality({k \in 1..Len(seq) : seq[k] = id})

\* the id a result on the item channel is about
ResultId(r) == IF r.tag = "Ok" THEN r.val.id ELSE r.val.json[2]

\* number of results on the item channel that are about the given id
InItemChan(id) == Cardinality({k \in 1..Len(item_chan) : ResultId(item_chan[k]) = id})

\* number of workers inside get_item for the given id, or dead inside it
InHands(id) == Cardinality({w \in Workers : wpc[w] \in {"call", "dead"} /\ wid[w] = id})

\* C13: every queue entry a worker dequeued is in exactly one place: with the
\* worker still inside get_item (or dead inside it), or as one result, about
\* that same id, on the item channel or pulled by the aggregation; no entry
\* is taken by two workers, so for distinct listed ids no id ever has two
\* results on the channel or seen by the aggregation.
C13_OneResultPerId ==
  \A id \in Ids :
    LET enqueued == CountIn(SubSeq(queue_ids, 1, enq_idx), id)
        placed == InItemChan(id) + CountIn([k \in 1..Len(collected) |-> collected[k].id], id)
        total == CountIn(id_chan, id) + InHands(id) + placed
    IN /\ items.tag # "Err" => total = enqueued
       /\ items.tag = "Err" => total <= enqueued
       /\ NoDup(listing) => placed <= 1

\* three distinct ids: one pulled by the aggregation, one on the item channel,
\* one still being fetched
C13_Witness ==
  /\ NoDup(listing)
  /\ Len(collected) = 1
  /\ Len(item_chan) = 1
  /\ \E w \in Workers : wpc[w] = "call"

\* sum of f[1..n]
RECURSIVE SumUpTo(_, _)
SumUpTo(f, n) == IF n = 0 THEN 0 ELSE f[n] + SumUpTo(f, n - 1)

\* number of get_item calls started after item_receiver was dropped
LateCalls == SumUpTo(late, NumWorkers)

\* C19 as stated: after the aggregation stopped on an error nothing more
\* reaches the item channel, every worker starts at most one more get_item
\* call, and the ids that were in the queue at that point stay there.
C19_QueueLeftUnfetched ==
  items.tag = "Err"
    => /\ item_chan = <<>>
       /\ \A w \in Workers : late[w] <= 1
       /\ LateCalls <= NumWorkers
       /\ id_chan = close_queue

\* after the stop: results are discarded, a worker starts at most one more
\* call, and the queue has lost exactly the ids of those calls
C19_Waste ==
  items.tag = "Err"
    => /\ item_chan = <<>>
       /\ \A w \in Workers : late[w] <= 1
       /\ LateCalls <= NumWorkers
       /\ LateCalls <= Len(close_queue)
       /\ id_chan = SubSeq(close_queue, LateCalls + 1, Len(close_queue))

\* C19 (amended): after the aggregation closed its receiving end, a call in
\* flight is not interrupted (it ends with the worker leaving its loop or
\* dying, its result discarded), each worker starts at most one more
\* get_item call, so at most NumWorkers calls start after the closure, and
\* the ids in the queue at the closure stay unfetched except the one each of
\* those calls took.
C19_BoundedWaste ==
  [][ /\ C19_Waste'
      /\ \A w \in Workers :
           (items.tag = "Err" /\ wpc[w] = "call")
             => wpc'[w] \in {"call", "broke", "dead"} ]_vars

\* after the stop both workers took one more id each and broke on the send
C19_Witness ==
  /\ items.tag = "Err"
  /\ Len(close_queue) = 2
  /\ \A w \in Workers : late[w] = 1 /\ wpc[w] = "broke"

\* C20: when the aggregation stopped on a data error and a worker thread
\* died, fetch_all_items returns the pool error; it returns the data error
\* only when every worker was joined and had ended normally.
C20_PoolErrorFirst ==
  /\ (Returned /\ items.tag = "Err" /\ \E w \in Workers : wpc[w] = "dead")
       => result = Err(ThreadDied)
  /\ (Returned /\ result.tag = "Err" /\ result.val \notin {ThreadDied, ListError})
       => /\ result = items
          /\ join_idx = NumWorkers + 1
          /\ \A w \in Workers : wpc[w] \in {"exited", "broke"}

\* the aggregation stopped on the error of one id, a worker died on another,
\* and the pool error was returned
C20_Witness ==
  /\ Returned
  /\ items.tag = "Err"
  /\ \E w \in Workers : wpc[w] = "dead"
  /\ result = Err(ThreadDied)
\* C12 as stated: a done() call prints a line exactly when the count after the
\* decrement is positive and at least 1000ms have passed since the last
\* printed line (or since the reporter was created).
C12_AtLeastInterval ==
  last_done.called =>
    (last_done.emitted <=>
       (last_done.count > 0 /\ last_done.elapsed >= ReportIntervalMs))

\* C12 amended: a done() call prints a line exactly when the count after the
\* decrement is positive and more than 1000ms have passed since the last
\* printed line (or since creation); a printed line resets the timer, so the
\* first line comes more than 1000ms after creation and two lines are more
\* than 1000ms apart; no line is printed by a done() that brings the count
\* to 0.
C12_Throttle ==
  /\ last_done.called =>
        (last_done.emitted <=>
           (last_done.count > 0 /\ last_done.elapsed > ReportIntervalMs))
  /\ last_report = IF reports = <<>> THEN 0 ELSE reports[Len(reports)][1]
  /\ \A k \in 1..Len(reports) :
        /\ reports[k][2] > 0
        /\ reports[k][1] - (IF k = 1 THEN 0 ELSE reports[k - 1][1])
             > ReportIntervalMs
  /\ (last_done.called /\ last_done.count = 0) => ~last_done.emitted

\* a line was printed, and a later done() with items outstanding came exactly
\* 1000ms after it and printed nothing
C12_Witness ==
  /\ Len(reports) = 1
  /\ last_done.called
  /\ last_done.count > 0
  /\ last_done.elapsed = ReportIntervalMs
  /\ ~last_done.emitted
\* where get_item stands with respect to its attempts
C16_State ==
  /\ attempts = tries
  /\ \A k \in 1..(attempts - 1) : Outcome(k) = "fail"
  /\ rpc = "try" => /\ backed_off = attempts
                    /\ Len(delays) = attempts
                    /\ attempts > 0 => Outcome(attempts) = "fail"
  /\ rpc = "backoff" => /\ backed_off = attempts - 1
                        /\ Len(delays) = attempts
                        /\ Outcome(attempts) = "fail"
  /\ rpc = "done" =>
        /\ backed_off = attempts - 1
        /\ Len(delays) = attempts - 1
        /\ IF Outcome(attempts) = "ok"
           THEN rresult = Ok(CmdJson(attempts))
           ELSE /\ attempts = MaxTries
                /\ rresult = Err(CmdError(MaxTries))

\* C16: in one get_item call an attempt starts only when every earlier
\* attempt has failed and its backoff step is over; the first successful
\* attempt ends the call with its payload; when all 5 attempts fail the call
\* returns the 5th attempt's error as it is, with no backoff computed after
\* it; and nothing is run once the call has returned.
C16_Sequential == [](C16_State) /\ [][rpc # "done"]_vars

\* all five attempts failed, four backoff steps in between
C16_Witness ==
  /\ rpc = "done"
  /\ attempts = MaxTries
  /\ rresult = Err(CmdError(MaxTries))
  /\ backed_off = MaxTries - 1
  /\ Len(delays) = MaxTries - 1

\* C17: the backoff time computed after failed attempt k (k = 1..4) is a
\* whole number of milliseconds d with k*3000 <= d < (k+1)*3000, the base
\* 3000 lying within 1000..3000; so the ranges of successive attempts do not
\* meet and each backoff time is greater than the one before it.
C17_BackoffWindow ==
  /\ BackoffBase \in 1000..3000
  /\ Len(delays) <= MaxTries - 1
  /\ \A k \in 1..Len(delays) :
        /\ delays[k] \in Nat
        /\ k * BackoffBase <= delays[k]
        /\ delays[k] < (k + 1) * BackoffBase
  /\ \A k \in 2..Len(delays) : delays[k] > delays[k - 1]
  /\ rpc = "backoff" => backoff_time = delays[Len(delays)]

\* four backoff times were computed; the first at the top of its range and
\* the second at the bottom of the next
C17_Witness ==
  /\ Len(delays) = MaxTries - 1
  /\ delays[1] = 2 * BackoffBase - 1
  /\ delays[2] = 2 * BackoffBase

\* the first run of the subprocess that succeeds; 0 when none does
FirstOk ==
  IF \E k \in 1..MaxTries : script[k] = "ok"
  THEN CHOOSE k \in 1..MaxTries :
         /\ script[k] = "ok"
         /\ \A j \in 1..(k - 1) : script[j] = "fail"
  ELSE 0

\* C18: what a finished get_item call did is fixed by the outcomes of the
\* subprocess runs alone: the number of attempts, the attempts after which a
\* backoff was computed and the returned payload or error are the same with
\* backoff enabled or disabled; the flag only decides whether the thread
\* slept.
C18_FlagOnlySleeps ==
  rpc = "done" =>
    /\ attempts = IF FirstOk = 0 THEN MaxTries ELSE FirstOk
    /\ rresult.tag = IF FirstOk = 0 THEN "Err" ELSE "Ok"
    /\ rresult.val = IF FirstOk = 0 THEN CmdError(MaxTries) ELSE CmdJson(FirstOk)
    /\ Len(delays) = attempts - 1
    /\ backed_off = attempts - 1
    /\ slept = IF backoff THEN attempts - 1 ELSE 0

\* with backoff disabled, the third attempt succeeded after two backoff
\* times were computed and no sleep
C18_Witness ==
  /\ rpc = "done"
  /\ ~backoff
  /\ attempts = 3
  /\ rresult = Ok(CmdJson(3))
  /\ Len(delays) = 2
  /\ slept = 0
\* the payloads of a sequence are in ascending order of id
SortedById(out) ==
  \A k \in 1..(Len(out) - 1) : IdRank(IdOfItem(out[k])) <= IdRank(IdOfItem(out[k + 1]))

\* the one output a successful run over this provider may write: the
\* payloads of the listed ids, each as often as listed, ascending by id
ExpectedOutput ==
  CHOOSE out \in [1..Len(listing) -> {Json(id) : id \in Ids}] :
    /\ SortedById(out)
    /\ \A id \in Ids : CountIn(out, Json(id)) = CountIn(listing, id)

ItemSet(v) == {v[k] : k \in 1..Len(v)}

\* the second call got through both listings and collect()
SecondDrained == prev_result.tag # "None" /\ Returned /\ Drained

\* C15: two calls of fetch_all_items on the same provider, both getting its
\* listing, end alike whatever the interleavings: if the first returned
\* items the second returns the same set of items, as many of them, and if
\* the first returned a fetch or thread error the second returns an error
\* too.
C15_Idempotent ==
  SecondDrained =>
    /\ prev_result.tag = "Ok" =>
          /\ result.tag = "Ok"
          /\ ItemSet(result.val) = ItemSet(prev_result.val)
          /\ Len(result.val) = Len(prev_result.val)
    /\ (prev_result.tag = "Err" /\ prev_result.val # ListError) =>
          result.tag = "Err"

\* both calls returned three items, in different orders
C15_Witness ==
  /\ SecondDrained
  /\ prev_result.tag = "Ok"
  /\ result.tag = "Ok"
  /\ Len(result.val) = 3
  /\ result.val # prev_result.val
====
